---- MODULE Spec2Model ----
(***************************************************************************)
(* Model of the seller-apis synchroniser: src/seller.py (Ozon) and         *)
(* src/market.py (Yandex Market).                                          *)
(*                                                                         *)
(* Python strings that the code takes apart (prices, quantity descriptors) *)
(* are sequences of one-character strings, so that str.split, re.sub and   *)
(* int() are computed character by character.  Offer ids / product codes   *)
(* are only ever compared for equality and are kept as atomic strings; the *)
(* feed's code field is taken to be a string already, so str() on it      *)
(* changes nothing.                                                        *)
(***************************************************************************)
EXTENDS Integers, Sequences, FiniteSets, TLC

VARIABLES
    call,            \* the call under way: function name and arguments
    ret,             \* its outcome once it has ended
    pc,              \* Spec: position inside the entry point
    campaign,        \* Spec: market.py: the campaign being synchronised
    watch_remnants,  \* Spec: the inventory (downloaded, or passed in)
    product_list,    \* Spec: get_offer_ids: the items accumulated so far
    cursor,          \* Spec: get_offer_ids: last_id / page of the next request
    total,           \* Spec: seller.py get_offer_ids: total of the last page
    offer_ids,       \* Spec: the caller's offer-id list (create_stocks mutates it)
    fetched_ids,     \* Spec: history: per campaign, the list get_offer_ids returned
    stocks,          \* Spec: the list create_stocks returned
    prices,          \* Spec: the list create_prices returned
    batches,         \* Spec: list(divide(...)) of the running submission pass
    k,               \* Spec: batches of the pass already attempted
    requests,        \* Spec: the update_stocks / update_price calls issued, in order
    coroutines,      \* Spec: coroutine objects created and never awaited
    raised           \* Spec: the exception main's except clause caught ("" if none)

runvars == <<pc, campaign, watch_remnants, product_list, cursor, total,
             offer_ids, fetched_ids, stocks, prices, batches, k, requests,
             coroutines, raised>>
vars == <<call, ret, pc, campaign, watch_remnants, product_list, cursor,
          total, offer_ids, fetched_ids, stocks, prices, batches, k, requests,
          coroutines, raised>>

(***************************************************************************)
(* Bounds of the model.                                                    *)
(***************************************************************************)
MaxInv == 2          \* records in an inventory passed to create_stocks/create_prices
MaxOffers == 2       \* entries in an offer-id list passed to them
MaxPriceLen == 3     \* characters of a price string passed to price_conversion
MaxListLen == 4      \* elements of a list passed to divide
MaxChunk == 3        \* chunk size passed to divide
MaxFeed == 2         \* records in the inventory of a sync run
MaxProducts == 3     \* items get_offer_ids accumulates in a sync run

\* Batch sizes of the submission loops, scaled down so that the lists of a
\* bounded run span several batches.  The code passes the literals 100
\* (seller.py:438, 453), 900 (seller.py:457), 1000 (seller.py:394),
\* 2000 (market.py:436, 458, 467) and 500 (market.py:369) to divide.
SellerStockBatch == 1
SellerMainPriceBatch == 1
SellerUploadPriceBatch == 1
MarketStockBatch == 2
MarketPriceBatch == 1

(***************************************************************************)
(* Python built-ins used by the code.                                      *)
(***************************************************************************)
Digits == {"0", "1", "2", "3", "4", "5", "6", "7", "8", "9"}

Range(s) == {s[i] : i \in 1..Len(s)}

\* x in lst
In(x, lst) == \E i \in 1..Len(lst) : lst[i] = x

\* lst.remove(x): drops the first occurrence of x (the code calls it only
\* after testing membership)
ListRemove(lst, x) ==
    LET i == CHOOSE j \in 1..Len(lst) :
                 lst[j] = x /\ \A h \in 1..(j - 1) : lst[h] # x
    IN  SubSeq(lst, 1, i - 1) \o SubSeq(lst, i + 1, Len(lst))

\* s.split(sep) for a one-character separator: the list of the parts
RECURSIVE StrSplit(_, _)
StrSplit(s, sep) ==
    IF ~In(sep, s) THEN <<s>>
    ELSE LET i == CHOOSE j \in 1..Len(s) :
                      s[j] = sep /\ \A h \in 1..(j - 1) : s[h] # sep
         IN  <<SubSeq(s, 1, i - 1)>> \o StrSplit(SubSeq(s, i + 1, Len(s)), sep)

\* re.sub("[^0-9]", "", s): every character outside 0-9 is replaced by nothing
RECURSIVE ReSubNonDigits(_)
ReSubNonDigits(s) ==
    IF s = <<>> THEN <<>>
    ELSE IF Head(s) \in Digits THEN <<Head(s)>> \o ReSubNonDigits(Tail(s))
    ELSE ReSubNonDigits(Tail(s))

DigitVal(c) ==
    CASE c = "0" -> 0 [] c = "1" -> 1 [] c = "2" -> 2 [] c = "3" -> 3
      [] c = "4" -> 4 [] c = "5" -> 5 [] c = "6" -> 6 [] c = "7" -> 7
      [] c = "8" -> 8 [] c = "9" -> 9

\* s.strip() restricted to the blank character
RECURSIVE StrStrip(_)
StrStrip(s) ==
    IF s = <<>> THEN s
    ELSE IF Head(s) = " " THEN StrStrip(Tail(s))
    ELSE IF s[Len(s)] = " " THEN StrStrip(SubSeq(s, 1, Len(s) - 1))
    ELSE s

RECURSIVE DigitsValue(_, _)
DigitsValue(s, acc) ==
    IF s = <<>> THEN acc
    ELSE IF Head(s) = "_" THEN DigitsValue(Tail(s), acc)
    ELSE DigitsValue(Tail(s), 10 * acc + DigitVal(Head(s)))

\* int(s) on a string: surrounding blanks are ignored, one sign is allowed,
\* then decimal digits, single underscores allowed between two digits.
\* Anything else raises ValueError ([ok |-> FALSE]).
PyInt(s) ==
    LET t == StrStrip(s)
        neg == t # <<>> /\ t[1] = "-"
        body == IF t # <<>> /\ t[1] \in {"+", "-"} THEN Tail(t) ELSE t
        wellformed ==
            /\ body # <<>>
            /\ \A i \in 1..Len(body) :
                 \/ body[i] \in Digits
                 \/ /\ body[i] = "_"
                    /\ i > 1 /\ i < Len(body)
                    /\ body[i - 1] \in Digits /\ body[i + 1] \in Digits
    IN  IF wellformed
        THEN [ok |-> TRUE, val |-> IF neg THEN 0 - DigitsValue(body, 0)
                                          ELSE DigitsValue(body, 0)]
        ELSE [ok |-> FALSE, val |-> 0]

Min(a, b) == IF a <= b THEN a ELSE b

\* list(range(start, stop, step)) for step >= 1
RECURSIVE PyRange(_, _, _)
PyRange(start, stop, step) ==
    IF start >= stop THEN <<>>
    ELSE <<start>> \o PyRange(start + step, stop, step)

\* lst[a:b] for 0 <= a <= b (the end is clipped to the length of the list)
PySlice(lst, a, b) == SubSeq(lst, a + 1, Min(b, Len(lst)))

(***************************************************************************)
(* seller.py: the pure functions.                                          *)
(***************************************************************************)

\* variant: keeps the part after the last '.' instead of the part before the
\* first one
price_conversion_keeps_dot_tail(price) ==
    ReSubNonDigits(StrSplit(price, ".")[Len(StrSplit(price, "."))])

\* seller.py price_conversion: re.sub("[^0-9]", "", price.split(".")[0])
price_conversion(price) == ReSubNonDigits(StrSplit(price, ".")[1])

\* variant: stops before the incomplete last chunk
divide_drops_remainder(lst, n) ==
    LET starts == PyRange(0, Len(lst) - (Len(lst) % n), n)
    IN  [j \in 1..Len(starts) |-> PySlice(lst, starts[j], starts[j] + n)]

\* seller.py divide, as list(divide(lst, n)): one chunk lst[i : i + n] for
\* every i of range(0, len(lst), n)
divide(lst, n) ==
    LET starts == PyRange(0, Len(lst), n)
    IN  [j \in 1..Len(starts) |-> PySlice(lst, starts[j], starts[j] + n)]

\* variant: a descriptor that is no integer counts as 0 instead of raising
seller_stock_lenient(count) ==
    IF count = <<">", "1", "0">> THEN [ok |-> TRUE, val |-> 100]
    ELSE IF count = <<"1">> THEN [ok |-> TRUE, val |-> 0]
    ELSE IF PyInt(count).ok THEN PyInt(count)
    ELSE [ok |-> TRUE, val |-> 0]

\* variant: without the rule that turns "1" into 0
seller_stock_plain_one(count) ==
    IF count = <<">", "1", "0">> THEN [ok |-> TRUE, val |-> 100]
    ELSE PyInt(count)

\* seller.py create_stocks, lines 261-267: the stock of one matched record
seller_stock(count) ==
    IF count = <<">", "1", "0">> THEN [ok |-> TRUE, val |-> 100]
    ELSE IF count = <<"1">> THEN [ok |-> TRUE, val |-> 0]
    ELSE PyInt(count)

\* seller.py create_stocks, lines 259-269: the loop over the inventory.
\* Yields the stocks built so far, the offer_ids list as mutated so far and
\* the exception that left the loop ("" if it ran to its end).
RECURSIVE seller_match_loop(_, _, _)
seller_match_loop(remnants, acc, ids) ==
    IF remnants = <<>> THEN [stocks |-> acc, offer_ids |-> ids, raised |-> ""]
    ELSE LET watch == Head(remnants) IN
         IF In(watch.code, ids)
         THEN IF ~seller_stock(watch.quantity).ok
              THEN [stocks |-> acc, offer_ids |-> ids, raised |-> "ValueError"]
              ELSE seller_match_loop(
                       Tail(remnants),
                       Append(acc, [offer_id |-> watch.code,
                                    stock |-> seller_stock(watch.quantity).val]),
                       ListRemove(ids, watch.code))
         ELSE seller_match_loop(Tail(remnants), acc, ids)

\* variant: zero-fills from the list as passed in, as if matched ids had not
\* been removed from it
seller_create_stocks_no_remove(remnants, ids) ==
    LET m == seller_match_loop(remnants, <<>>, ids)
    IN  IF m.raised # "" THEN m
        ELSE [stocks |-> m.stocks \o
                         [i \in 1..Len(ids) |->
                             [offer_id |-> ids[i], stock |-> 0]],
              offer_ids |-> ids,
              raised |-> ""]

\* variant: a call that fails leaves the caller's list as it was passed in
seller_create_stocks_restores_ids(remnants, ids) ==
    LET m == seller_match_loop(remnants, <<>>, ids)
    IN  IF m.raised # "" THEN [m EXCEPT !.offer_ids = ids]
        ELSE [stocks |-> m.stocks \o
                         [i \in 1..Len(m.offer_ids) |->
                             [offer_id |-> m.offer_ids[i], stock |-> 0]],
              offer_ids |-> m.offer_ids,
              raised |-> ""]

\* seller.py create_stocks: the loop, then a zero stock for every id left
seller_create_stocks(remnants, ids) ==
    LET m == seller_match_loop(remnants, <<>>, ids)
    IN  IF m.raised # "" THEN m
        ELSE [stocks |-> m.stocks \o
                         [i \in 1..Len(m.offer_ids) |->
                             [offer_id |-> m.offer_ids[i], stock |-> 0]],
              offer_ids |-> m.offer_ids,
              raised |-> ""]

\* seller.py create_prices
seller_create_prices(remnants, ids) ==
    LET known == SelectSeq(remnants, LAMBDA watch : In(watch.code, ids))
    IN  [prices |-> [i \in 1..Len(known) |->
                        [auto_action_enabled |-> "UNKNOWN",
                         currency_code |-> "RUB",
                         offer_id |-> known[i].code,
                         old_price |-> "0",
                         price |-> price_conversion(known[i].price)]],
         raised |-> ""]

(***************************************************************************)
(* market.py: the pure functions.                                          *)
(***************************************************************************)

\* market.py create_stocks, lines 248-254
market_stock(count) ==
    IF count = <<">", "1", "0">> THEN [ok |-> TRUE, val |-> 100]
    ELSE IF count = <<"1">> THEN [ok |-> TRUE, val |-> 0]
    ELSE PyInt(count)

\* variant: the stock update is not stamped with the clock reading
market_sku_unstamped(sku, warehouse_id, count, date) ==
    [sku |-> sku,
     warehouseId |-> warehouse_id,
     items |-> <<[count |-> count, type |-> "FIT", updatedAt |-> ""]>>]

\* market.py create_stocks, lines 255-267 and 271-283: one stock update
market_sku(sku, warehouse_id, count, date) ==
    [sku |-> sku,
     warehouseId |-> warehouse_id,
     items |-> <<[count |-> count, type |-> "FIT", updatedAt |-> date]>>]

\* market.py create_stocks, lines 246-268
RECURSIVE market_match_loop(_, _, _, _, _)
market_match_loop(remnants, acc, ids, warehouse_id, date) ==
    IF remnants = <<>> THEN [stocks |-> acc, offer_ids |-> ids, raised |-> ""]
    ELSE LET watch == Head(remnants) IN
         IF In(watch.code, ids)
         THEN IF ~market_stock(watch.quantity).ok
              THEN [stocks |-> acc, offer_ids |-> ids, raised |-> "ValueError"]
              ELSE market_match_loop(
                       Tail(remnants),
                       Append(acc, market_sku(watch.code, warehouse_id,
                                              market_stock(watch.quantity).val,
                                              date)),
                       ListRemove(ids, watch.code), warehouse_id, date)
         ELSE market_match_loop(Tail(remnants), acc, ids, warehouse_id, date)

\* market.py create_stocks; date is the clock reading of line 245
market_create_stocks(remnants, ids, warehouse_id, date) ==
    LET m == market_match_loop(remnants, <<>>, ids, warehouse_id, date)
    IN  IF m.raised # "" THEN m
        ELSE [stocks |-> m.stocks \o
                         [i \in 1..Len(m.offer_ids) |->
                             market_sku(m.offer_ids[i], warehouse_id, 0, date)],
              offer_ids |-> m.offer_ids,
              raised |-> ""]

\* market.py create_prices: int(price_conversion(...)) raises ValueError on
\* the first known record whose converted price is no integer literal
market_create_prices(remnants, ids) ==
    LET known == SelectSeq(remnants, LAMBDA watch : In(watch.code, ids))
        value(i) == PyInt(price_conversion(known[i].price))
    IN  IF \E i \in 1..Len(known) : ~value(i).ok
        THEN [prices |-> <<>>, raised |-> "ValueError"]
        ELSE [prices |-> [i \in 1..Len(known) |->
                             [id |-> known[i].code,
                              price |-> [value |-> value(i).val,
                                         currencyId |-> "RUR"]]],
              raised |-> ""]

(***************************************************************************)
(* Input domains.                                                          *)
(***************************************************************************)
SeqsUpTo(S, n) == UNION {[1..m -> S] : m \in 0..n}

Codes == {"123", "456"}

\* quantity descriptors of the feed: ">10", "1", "7", "0", "10", "-3", and
\* the non-integers "abc", "" and "1.5"
Quantities ==
    {<<">", "1", "0">>, <<"1">>, <<"7">>, <<"0">>, <<"1", "0">>,
     <<"-", "3">>, <<"a", "b", "c">>, <<>>, <<"1", ".", "5">>}

\* price strings of the feed: "16'590.00 rub.", "42", "abc", ".50" (the
\* letters r, u, b stand for the Cyrillic letters of the currency suffix)
LongPrice ==
    <<"1", "6", "'", "5", "9", "0", ".", "0", "0", " ", "r", "u", "b", ".">>

FeedPrices == {LongPrice, <<"4", "2">>, <<"a", "b", "c">>, <<".", "5", "0">>}

PriceChars == {"1", "9", "'", ".", " ", "r"}

\* records for stock calls (the price is not read) and for price calls (the
\* quantity is not read)
StockRecords == [code : Codes, quantity : Quantities, price : {LongPrice}]
PriceRecords == [code : Codes, quantity : {<<"7">>}, price : FeedPrices]

OfferLists == SeqsUpTo(Codes, MaxOffers)

\* readings of the clock, as market.py create_stocks formats them, and their
\* order in time
Timestamps == {"2025-01-01T00:00:00Z", "2025-01-01T00:00:01Z"}

Earlier(a, b) == a = "2025-01-01T00:00:00Z" /\ b = "2025-01-01T00:00:01Z"

Calls ==
    [fn : {"divide"}, lst : SeqsUpTo({"x", "y"}, MaxListLen), n : 1..MaxChunk]
    \cup [fn : {"price_conversion"},
          price : SeqsUpTo(PriceChars, MaxPriceLen) \cup FeedPrices]
    \cup [fn : {"seller.create_stocks"},
          watch_remnants : SeqsUpTo(StockRecords, MaxInv), offer_ids : OfferLists]
    \cup [fn : {"market.create_stocks"},
          watch_remnants : SeqsUpTo(StockRecords, MaxInv), offer_ids : OfferLists,
          warehouse_id : {"wh"}]
    \cup [fn : {"seller.create_prices", "market.create_prices"},
          watch_remnants : SeqsUpTo(PriceRecords, MaxInv), offer_ids : OfferLists]

Pending == [status |-> "pending"]

RunIdle ==
    /\ pc = "idle"
    /\ campaign = ""
    /\ watch_remnants = <<>>
    /\ product_list = <<>>
    /\ cursor = ""
    /\ total = 0
    /\ offer_ids = <<>>
    /\ fetched_ids = <<>>
    /\ stocks = <<>>
    /\ prices = <<>>
    /\ batches = <<>>
    /\ k = 0
    /\ requests = <<>>
    /\ coroutines = 0
    /\ raised = ""

(***************************************************************************)
(* SpecFn: one call of one function on drawn arguments; a reconciliation   *)
(* function may then be called a second time with equal arguments.         *)
(***************************************************************************)
InitFn == call \in Calls /\ ret = Pending /\ RunIdle

FnDivide ==
    /\ call.fn = "divide" /\ ret = Pending
    /\ ret' = [status |-> "returned", value |-> divide(call.lst, call.n)]
    /\ UNCHANGED <<call, runvars>>

FnPriceConversion ==
    /\ call.fn = "price_conversion" /\ ret = Pending
    /\ ret' = [status |-> "returned", value |-> price_conversion(call.price)]
    /\ UNCHANGED <<call, runvars>>

\* outcome of a reconciliation call: the list it returns, or the exception,
\* and the caller's offer_ids list as the call left it
Outcome(r, value) ==
    IF r.raised # ""
    THEN [status |-> "raised", value |-> r.raised, offer_ids |-> r.offer_ids]
    ELSE [status |-> "returned", value |-> value, offer_ids |-> r.offer_ids]

FnSellerCreateStocks ==
    /\ call.fn = "seller.create_stocks" /\ ret = Pending
    /\ LET r == seller_create_stocks(call.watch_remnants, call.offer_ids)
       IN  ret' = Outcome(r, r.stocks)
    /\ UNCHANGED <<call, runvars>>

FnMarketCreateStocks ==
    /\ call.fn = "market.create_stocks" /\ ret = Pending
    /\ \E date \in Timestamps :
         LET r == market_create_stocks(call.watch_remnants, call.offer_ids,
                                       call.warehouse_id, date)
         IN  ret' = Outcome(r, r.stocks) @@ [clock |-> date]
    /\ UNCHANGED <<call, runvars>>

FnSellerCreatePrices ==
    /\ call.fn = "seller.create_prices" /\ ret = Pending
    /\ LET r == seller_create_prices(call.watch_remnants, call.offer_ids)
       IN  ret' = Outcome(r @@ [offer_ids |-> call.offer_ids], r.prices)
    /\ UNCHANGED <<call, runvars>>

FnMarketCreatePrices ==
    /\ call.fn = "market.create_prices" /\ ret = Pending
    /\ LET r == market_create_prices(call.watch_remnants, call.offer_ids)
       IN  ret' = Outcome(r @@ [offer_ids |-> call.offer_ids], r.prices)
    /\ UNCHANGED <<call, runvars>>

\* the reconciliation call is made a second time with the same inventory and
\* a fresh copy of the offer-id list first passed; the clock has not gone
\* back since the first call
FnCallAgain ==
    /\ ret.status # "pending" /\ "again" \notin DOMAIN ret
    /\ \/ /\ call.fn = "seller.create_stocks"
          /\ LET r == seller_create_stocks(call.watch_remnants, call.offer_ids)
             IN  ret' = ret @@ [again |-> Outcome(r, r.stocks)]
       \/ /\ call.fn = "market.create_stocks"
          /\ \E date \in Timestamps :
               /\ ~Earlier(date, ret.clock)
               /\ LET r == market_create_stocks(call.watch_remnants,
                                                call.offer_ids,
                                                call.warehouse_id, date)
                  IN  ret' = ret @@ [again |-> Outcome(r, r.stocks)
                                                @@ [clock |-> date]]
       \/ /\ call.fn = "seller.create_prices"
          /\ LET r == seller_create_prices(call.watch_remnants, call.offer_ids)
             IN  ret' = ret @@ [again |->
                           Outcome(r @@ [offer_ids |-> call.offer_ids], r.prices)]
       \/ /\ call.fn = "market.create_prices"
          /\ LET r == market_create_prices(call.watch_remnants, call.offer_ids)
             IN  ret' = ret @@ [again |->
                           Outcome(r @@ [offer_ids |-> call.offer_ids], r.prices)]
    /\ UNCHANGED <<call, runvars>>

NextFn ==
    \/ FnCallAgain
    \/ FnDivide
    \/ FnPriceConversion
    \/ FnSellerCreateStocks
    \/ FnMarketCreateStocks
    \/ FnSellerCreatePrices
    \/ FnMarketCreatePrices

SpecFn == InitFn /\ [][NextFn]_vars

(***************************************************************************)
(* Spec: one run of an entry point, with the marketplace, the vendor site  *)
(* and the clock as the environment.  The entry points are seller.main,    *)
(* market.main and the upload_stocks / upload_prices coroutines of both    *)
(* modules, awaited by their caller.                                       *)
(***************************************************************************)
\* records of a downloaded feed: quantity ">10" or "abc"
FeedRecords ==
    [code : Codes, quantity : {<<">", "1", "0">>, <<"a", "b", "c">>},
     price : {LongPrice}]

Feeds == SeqsUpTo(FeedRecords, MaxFeed)

\* exceptions the requests library raises from a collaborator call
TransportErrors == {"ReadTimeout", "ConnectionError", "HTTPError"}

\* what a page of get_product_list may hold, and the cursor values it returns
\* ("" stands for an empty or absent cursor)
OfferPages == SeqsUpTo(Codes, MaxProducts)
Cursors == {"", "next"}

Mains == {"seller.main", "market.main"}
SellerEntries == {"seller.main", "seller.upload_stocks", "seller.upload_prices"}
MarketEntries == {"market.main", "market.upload_stocks", "market.upload_prices"}

RunCalls ==
    [fn : Mains]
    \cup [fn : {"seller.upload_stocks", "seller.upload_prices",
                "market.upload_prices"},
          watch_remnants : Feeds]
    \cup [fn : {"market.upload_stocks"}, watch_remnants : Feeds,
          warehouse_id : {"wh"}]

Init ==
    /\ call \in RunCalls
    /\ ret = Pending
    /\ pc = IF call.fn = "market.main" THEN "download_stock" ELSE "get_offer_ids"
    /\ campaign = IF call.fn = "market.main" THEN "FBS"
                  ELSE IF call.fn \in MarketEntries THEN "campaign" ELSE ""
    /\ watch_remnants = IF call.fn \in Mains THEN <<>> ELSE call.watch_remnants
    /\ product_list = <<>>
    /\ cursor = ""
    /\ total = 0
    /\ offer_ids = <<>>
    /\ fetched_ids = <<>>
    /\ stocks = <<>>
    /\ prices = <<>>
    /\ batches = <<>>
    /\ k = 0
    /\ requests = <<>>
    /\ coroutines = 0
    /\ raised = ""

ReturnNone == [status |-> "returned", value |-> "None"]

\* An exception leaves the running statement.  Inside the try block of a main
\* it is caught and printed and main returns; in an upload_* coroutine it
\* propagates to the caller.
Throw(exc) ==
    /\ pc' = "done"
    /\ IF call.fn \in Mains
       THEN raised' = exc /\ ret' = ReturnNone
       ELSE raised' = raised /\ ret' = [status |-> "raised", value |-> exc]

\* the statement that follows get_offer_ids in each entry point
AfterGetOfferIds ==
    IF call.fn = "seller.main" THEN "download_stock"
    ELSE IF call.fn \in {"seller.upload_prices", "market.upload_prices"}
         THEN "create_prices"
    ELSE "create_stocks"

\* seller.py get_offer_ids lines 78-81, the first half of one turn of its
\* loop: a page is requested with last_id, its items are appended, and total
\* and last_id are taken from it.
SellerFetchPage ==
    /\ pc = "get_offer_ids" /\ call.fn \in SellerEntries
    /\ \/ \E items \in OfferPages, t \in 0..MaxProducts, last_id \in Cursors :
            LET pl == product_list \o
                      [i \in 1..Len(items) |-> [offer_id |-> items[i]]]
            IN  /\ Len(pl) <= MaxProducts
                /\ product_list' = pl
                /\ total' = t
                /\ cursor' = last_id
                /\ pc' = "page_fetched"
                /\ UNCHANGED <<ret, raised>>
       \/ \E exc \in TransportErrors :
            /\ Throw(exc)
            /\ UNCHANGED <<product_list, cursor, total>>
    /\ UNCHANGED <<call, campaign, watch_remnants, offer_ids, fetched_ids,
                   stocks, prices, batches, k, requests, coroutines>>

\* variant: the loop ends when the page carries no last_id
SellerLoopTestOnCursor ==
    /\ pc = "page_fetched" /\ call.fn \in SellerEntries
    /\ IF cursor = ""
       THEN LET ids == [i \in 1..Len(product_list) |->
                           product_list[i].offer_id]
            IN  /\ offer_ids' = ids
                /\ fetched_ids' = (campaign :> ids) @@ fetched_ids
                /\ product_list' = <<>>
                /\ cursor' = ""
                /\ total' = 0
                /\ pc' = AfterGetOfferIds
       ELSE /\ pc' = "get_offer_ids"
            /\ UNCHANGED <<product_list, cursor, total, offer_ids, fetched_ids>>
    /\ UNCHANGED <<call, ret, campaign, watch_remnants, stocks, prices, batches,
                   k, requests, coroutines, raised>>

\* seller.py get_offer_ids lines 82-87, the second half of the turn: the loop
\* ends when the reported total equals the number of items accumulated
\* (last_id plays no part in the test); then the offer ids are read off the
\* items, in order, and returned.  Otherwise the next page is requested.
SellerLoopTest ==
    /\ pc = "page_fetched" /\ call.fn \in SellerEntries
    /\ IF total = Len(product_list)
       THEN LET ids == [i \in 1..Len(product_list) |->
                           product_list[i].offer_id]
            IN  /\ offer_ids' = ids
                /\ fetched_ids' = (campaign :> ids) @@ fetched_ids
                /\ product_list' = <<>>
                /\ cursor' = ""
                /\ total' = 0
                /\ pc' = AfterGetOfferIds
       ELSE /\ pc' = "get_offer_ids"
            /\ UNCHANGED <<product_list, cursor, total, offer_ids, fetched_ids>>
    /\ UNCHANGED <<call, ret, campaign, watch_remnants, stocks, prices, batches,
                   k, requests, coroutines, raised>>

\* market.py get_offer_ids lines 169-171, the first half of one turn of its
\* loop: a page is requested with page, its entries are appended, and page
\* becomes its nextPageToken.
MarketFetchPage ==
    /\ pc = "get_offer_ids" /\ call.fn \in MarketEntries
    /\ \/ \E items \in OfferPages, nextPageToken \in Cursors :
            LET pl == product_list \o
                      [i \in 1..Len(items) |-> [offer |-> [shopSku |-> items[i]]]]
            IN  /\ Len(pl) <= MaxProducts
                /\ product_list' = pl
                /\ cursor' = nextPageToken
                /\ pc' = "page_fetched"
                /\ UNCHANGED <<ret, raised>>
       \/ \E exc \in TransportErrors :
            /\ Throw(exc)
            /\ UNCHANGED <<product_list, cursor>>
    /\ UNCHANGED <<call, campaign, watch_remnants, total, offer_ids, fetched_ids,
                   stocks, prices, batches, k, requests, coroutines>>

\* market.py get_offer_ids lines 172-177, the second half of the turn: the
\* loop ends when page is empty or absent; then the shop SKUs are read off
\* the entries, in order, and returned.  Otherwise the next page is requested.
MarketLoopTest ==
    /\ pc = "page_fetched" /\ call.fn \in MarketEntries
    /\ IF cursor = ""
       THEN LET ids == [i \in 1..Len(product_list) |->
                           product_list[i].offer.shopSku]
            IN  /\ offer_ids' = ids
                /\ fetched_ids' = (campaign :> ids) @@ fetched_ids
                /\ product_list' = <<>>
                /\ pc' = AfterGetOfferIds
       ELSE /\ pc' = "get_offer_ids"
            /\ UNCHANGED <<product_list, offer_ids, fetched_ids>>
    /\ UNCHANGED <<call, ret, campaign, watch_remnants, cursor, total, stocks,
                   prices, batches, k, requests, coroutines, raised>>

\* seller.py download_stock, called by both mains.  seller.main calls it
\* inside its try block; market.main calls it before the try block, so there
\* a failure is not caught and ends main with the exception.
DownloadStock ==
    /\ pc = "download_stock"
    /\ \/ /\ \E feed \in Feeds : watch_remnants' = feed
          /\ pc' = IF call.fn = "seller.main" THEN "create_stocks"
                   ELSE "get_offer_ids"
          /\ UNCHANGED <<ret, raised>>
       \/ /\ \E exc \in TransportErrors :
               IF call.fn = "seller.main"
               THEN Throw(exc)
               ELSE /\ pc' = "done"
                    /\ ret' = [status |-> "raised", value |-> exc]
                    /\ raised' = raised
          /\ UNCHANGED watch_remnants
    /\ UNCHANGED <<call, campaign, product_list, cursor, total, offer_ids,
                   fetched_ids,
                   stocks, prices, batches, k, requests, coroutines>>

\* the statement that follows the stock submission loop
AfterStocks ==
    IF call.fn = "seller.main" THEN "create_prices"
    ELSE IF call.fn = "market.main" THEN "upload_prices"
    ELSE "done"

\* upload_stocks returns (not_empty, stocks); the mains go on
RetAfterStocks(not_empty, all) ==
    IF call.fn \in Mains THEN ret
    ELSE [status |-> "returned", value |-> <<not_empty, all>>]

\* upload_prices returns prices; seller.main returns
RetAfterPrices(all) ==
    IF call.fn \in Mains THEN ReturnNone
    ELSE [status |-> "returned", value |-> all]

\* one update_stocks / update_price call as the marketplace sees it
Request(fn, batch, ok) ==
    [fn |-> fn, campaign |-> campaign, batch |-> batch, ok |-> ok]

\* seller.py main lines 452-453 and upload_stocks lines 437-438:
\* create_stocks on the caller's offer_ids, then list(divide(stocks, 100))
SellerCreateStocks ==
    /\ pc = "create_stocks" /\ call.fn \in SellerEntries
    /\ LET r == seller_create_stocks(watch_remnants, offer_ids)
           bs == divide(r.stocks, SellerStockBatch)
       IN  /\ offer_ids' = r.offer_ids
           /\ IF r.raised # ""
              THEN Throw(r.raised) /\ UNCHANGED <<stocks, batches, k>>
              ELSE /\ stocks' = r.stocks
                   /\ batches' = bs
                   /\ k' = 0
                   /\ raised' = raised
                   /\ IF bs = <<>>
                      THEN /\ pc' = AfterStocks
                           /\ ret' = RetAfterStocks(
                                  SelectSeq(r.stocks, LAMBDA u : u.stock # 0),
                                  r.stocks)
                      ELSE pc' = "update_stocks" /\ ret' = ret
    /\ UNCHANGED <<call, campaign, watch_remnants, product_list, cursor,
                   total, fetched_ids, prices, requests, coroutines>>

\* market.py main lines 457-458 / 466-467 and upload_stocks lines 435-436;
\* date is what the clock shows when create_stocks reads it
MarketCreateStocks ==
    /\ pc = "create_stocks" /\ call.fn \in MarketEntries
    /\ \E date \in Timestamps :
       LET warehouse_id == IF call.fn = "market.main"
                           THEN (IF campaign = "FBS" THEN "wh_fbs" ELSE "wh_dbs")
                           ELSE call.warehouse_id
           r == market_create_stocks(watch_remnants, offer_ids, warehouse_id,
                                     date)
           bs == divide(r.stocks, MarketStockBatch)
       IN  /\ offer_ids' = r.offer_ids
           /\ IF r.raised # ""
              THEN Throw(r.raised) /\ UNCHANGED <<stocks, batches, k>>
              ELSE /\ stocks' = r.stocks
                   /\ batches' = bs
                   /\ k' = 0
                   /\ raised' = raised
                   /\ IF bs = <<>>
                      THEN /\ pc' = AfterStocks
                           /\ ret' = RetAfterStocks(
                                  SelectSeq(r.stocks,
                                            LAMBDA u : u.items[1].count # 0),
                                  r.stocks)
                      ELSE pc' = "update_stocks" /\ ret' = ret
    /\ UNCHANGED <<call, campaign, watch_remnants, product_list, cursor,
                   total, fetched_ids, prices, requests, coroutines>>

\* variant: a failed update_stocks call is swallowed and the loop goes on
SellerUpdateStocksKeepsGoing ==
    /\ pc = "update_stocks" /\ call.fn \in SellerEntries
    /\ k < Len(batches)
    /\ \E ok \in BOOLEAN :
         requests' = Append(requests, Request("update_stocks", batches[k + 1], ok))
    /\ k' = k + 1
    /\ IF k + 1 = Len(batches)
       THEN /\ pc' = AfterStocks
            /\ ret' = RetAfterStocks(SelectSeq(stocks, LAMBDA u : u.stock # 0),
                                     stocks)
       ELSE UNCHANGED <<pc, ret>>
    /\ UNCHANGED <<call, campaign, watch_remnants, product_list, cursor,
                   total, offer_ids, fetched_ids, stocks, prices, batches,
                   coroutines, raised>>

\* seller.py main lines 453-454 and upload_stocks lines 438-441: one turn of
\* the loop over the batches; after the last batch the entry point goes on
SellerUpdateStocks ==
    /\ pc = "update_stocks" /\ call.fn \in SellerEntries
    /\ k < Len(batches)
    /\ k' = k + 1
    /\ \/ /\ requests' =
               Append(requests, Request("update_stocks", batches[k + 1], TRUE))
          /\ raised' = raised
          /\ IF k + 1 = Len(batches)
             THEN /\ pc' = AfterStocks
                  /\ ret' = RetAfterStocks(
                         SelectSeq(stocks, LAMBDA u : u.stock # 0), stocks)
             ELSE UNCHANGED <<pc, ret>>
       \/ /\ requests' =
               Append(requests, Request("update_stocks", batches[k + 1], FALSE))
          /\ \E exc \in TransportErrors : Throw(exc)
    /\ UNCHANGED <<call, campaign, watch_remnants, product_list, cursor,
                   total, offer_ids, fetched_ids, stocks, prices, batches,
                   coroutines>>

\* market.py main lines 458-459 / 467-468 and upload_stocks lines 436-441
MarketUpdateStocks ==
    /\ pc = "update_stocks" /\ call.fn \in MarketEntries
    /\ k < Len(batches)
    /\ k' = k + 1
    /\ \/ /\ requests' =
               Append(requests, Request("update_stocks", batches[k + 1], TRUE))
          /\ raised' = raised
          /\ IF k + 1 = Len(batches)
             THEN /\ pc' = AfterStocks
                  /\ ret' = RetAfterStocks(
                         SelectSeq(stocks, LAMBDA u : u.items[1].count # 0),
                         stocks)
             ELSE UNCHANGED <<pc, ret>>
       \/ /\ requests' =
               Append(requests, Request("update_stocks", batches[k + 1], FALSE))
          /\ \E exc \in TransportErrors : Throw(exc)
    /\ UNCHANGED <<call, campaign, watch_remnants, product_list, cursor,
                   total, offer_ids, fetched_ids, stocks, prices, batches,
                   coroutines>>

\* seller.py main lines 456-457 and upload_prices lines 393-394:
\* create_prices on the caller's offer_ids as it is by then, then
\* list(divide(prices, 900)) in main, list(divide(prices, 1000)) in upload_prices
SellerCreatePrices ==
    /\ pc = "create_prices" /\ call.fn \in SellerEntries
    /\ LET r == seller_create_prices(watch_remnants, offer_ids)
           bs == divide(r.prices, IF call.fn = "seller.main"
                                  THEN SellerMainPriceBatch
                                  ELSE SellerUploadPriceBatch)
       IN  /\ prices' = r.prices
           /\ batches' = bs
           /\ k' = 0
           /\ IF bs = <<>>
              THEN pc' = "done" /\ ret' = RetAfterPrices(r.prices)
              ELSE pc' = "update_price" /\ ret' = ret
    /\ UNCHANGED <<call, campaign, watch_remnants, product_list, cursor,
                   total, offer_ids, fetched_ids, stocks, requests,
                   coroutines, raised>>

\* market.py upload_prices lines 368-369
MarketCreatePrices ==
    /\ pc = "create_prices" /\ call.fn \in MarketEntries
    /\ LET r == market_create_prices(watch_remnants, offer_ids)
           bs == divide(r.prices, MarketPriceBatch)
       IN  IF r.raised # ""
           THEN Throw(r.raised) /\ UNCHANGED <<prices, batches, k>>
           ELSE /\ prices' = r.prices
                /\ batches' = bs
                /\ k' = 0
                /\ raised' = raised
                /\ IF bs = <<>>
                   THEN pc' = "done" /\ ret' = RetAfterPrices(r.prices)
                   ELSE pc' = "update_price" /\ ret' = ret
    /\ UNCHANGED <<call, campaign, watch_remnants, product_list, cursor,
                   total, offer_ids, fetched_ids, stocks, requests, coroutines>>

\* seller.py main lines 457-458 and upload_prices lines 394-396
SellerUpdatePrice ==
    /\ pc = "update_price" /\ call.fn \in SellerEntries
    /\ k < Len(batches)
    /\ k' = k + 1
    /\ \/ /\ requests' =
               Append(requests, Request("update_price", batches[k + 1], TRUE))
          /\ raised' = raised
          /\ IF k + 1 = Len(batches)
             THEN pc' = "done" /\ ret' = RetAfterPrices(prices)
             ELSE UNCHANGED <<pc, ret>>
       \/ /\ requests' =
               Append(requests, Request("update_price", batches[k + 1], FALSE))
          /\ \E exc \in TransportErrors : Throw(exc)
    /\ UNCHANGED <<call, campaign, watch_remnants, product_list, cursor,
                   total, offer_ids, fetched_ids, stocks, prices, batches,
                   coroutines>>

\* market.py upload_prices lines 369-371
MarketUpdatePrice ==
    /\ pc = "update_price" /\ call.fn \in MarketEntries
    /\ k < Len(batches)
    /\ k' = k + 1
    /\ \/ /\ requests' =
               Append(requests, Request("update_price", batches[k + 1], TRUE))
          /\ raised' = raised
          /\ IF k + 1 = Len(batches)
             THEN pc' = "done" /\ ret' = RetAfterPrices(prices)
             ELSE UNCHANGED <<pc, ret>>
       \/ /\ requests' =
               Append(requests, Request("update_price", batches[k + 1], FALSE))
          /\ \E exc \in TransportErrors : Throw(exc)
    /\ UNCHANGED <<call, campaign, watch_remnants, product_list, cursor,
                   total, offer_ids, fetched_ids, stocks, prices, batches,
                   coroutines>>

\* market.py main lines 461 and 470: upload_prices is a coroutine function and
\* main calls it without awaiting the result, so the call only creates a
\* coroutine object; the body (get_offer_ids, create_prices, update_price)
\* never runs.  After the FBS call main goes on with the DBS campaign, after
\* the DBS call it returns.
MarketMainUploadPrices ==
    /\ pc = "upload_prices" /\ call.fn = "market.main"
    /\ coroutines' = coroutines + 1
    /\ IF campaign = "FBS"
       THEN campaign' = "DBS" /\ pc' = "get_offer_ids" /\ ret' = ret
       ELSE campaign' = campaign /\ pc' = "done" /\ ret' = ReturnNone
    /\ UNCHANGED <<call, watch_remnants, product_list, cursor, total, offer_ids,
                   fetched_ids, stocks, prices, batches, k, requests, raised>>

Next ==
    \/ SellerFetchPage
    \/ SellerLoopTest
    \/ MarketFetchPage
    \/ MarketLoopTest
    \/ DownloadStock
    \/ SellerCreateStocks
    \/ MarketCreateStocks
    \/ SellerUpdateStocks
    \/ MarketUpdateStocks
    \/ SellerCreatePrices
    \/ MarketCreatePrices
    \/ SellerUpdatePrice
    \/ MarketUpdatePrice
    \/ MarketMainUploadPrices

Spec == Init /\ [][Next]_vars

(***************************************************************************)
(* Claims about the functions (checked under SpecFn).                      *)
(***************************************************************************)
IsStocksCall == call.fn \in {"seller.create_stocks", "market.create_stocks"}
IsPricesCall == call.fn \in {"seller.create_prices", "market.create_prices"}

\* offer id and count of a stock update, in the shape of the variant called
StockId(u) == IF call.fn = "seller.create_stocks" THEN u.offer_id ELSE u.sku
StockCount(u) ==
    IF call.fn = "seller.create_stocks" THEN u.stock ELSE u.items[1].count

NoRepeats(lst) == \A i, j \in 1..Len(lst) : lst[i] = lst[j] => i = j
Occurrences(lst, x) == Cardinality({i \in 1..Len(lst) : lst[i] = x})

RECURSIVE Flatten(_)
Flatten(chunks) ==
    IF chunks = <<>> THEN <<>> ELSE Head(chunks) \o Flatten(Tail(chunks))

\* the count the quantity rules prescribe for each well-formed descriptor of
\* the feed: ">10" -> 100, "1" -> 0, an integer string -> its value
ExpectedCount ==
    (<<">", "1", "0">> :> 100) @@ (<<"1">> :> 0) @@ (<<"7">> :> 7)
    @@ (<<"0">> :> 0) @@ (<<"1", "0">> :> 10) @@ (<<"-", "3">> :> (0 - 3))

Malformed(quantity) == quantity \notin DOMAIN ExpectedCount

\* record i of the inventory is reached while its code is still in the
\* offer-id list: the list holds the code more often than the records
\* before i do
Live(inv, ids, i) ==
    Occurrences(ids, inv[i].code) >
        Cardinality({j \in 1..(i - 1) : inv[j].code = inv[i].code})

\* position, in the returned list, of the update made from live record i
Position(inv, ids, i) == Cardinality({j \in 1..i : Live(inv, ids, j)})

\* the digits of a price that stand before its first '.', scanned left to right
RECURSIVE DigitsBeforeDot(_)
DigitsBeforeDot(p) ==
    IF p = <<>> \/ Head(p) = "." THEN <<>>
    ELSE (IF Head(p) \in Digits THEN <<Head(p)>> ELSE <<>>)
         \o DigitsBeforeDot(Tail(p))

\* C1: when create_stocks (either variant) returns for an offer-id list
\* without repeated entries, the offer ids of the returned stock updates are
\* exactly the offer ids passed in, each in exactly one update.
C1_StockIdsAreKnownIdsOnce ==
    (IsStocksCall /\ ret.status = "returned" /\ NoRepeats(call.offer_ids)) =>
        LET ids == [i \in 1..Len(ret.value) |-> StockId(ret.value[i])]
        IN  /\ Range(ids) = Range(call.offer_ids)
            /\ Len(ids) = Len(call.offer_ids)
            /\ \A x \in Range(call.offer_ids) : Occurrences(ids, x) = 1

C1_Witness ==
    /\ IsStocksCall /\ ret.status = "returned"
    /\ NoRepeats(call.offer_ids) /\ Len(call.offer_ids) = 2
    /\ Len(call.watch_remnants) = 2
    /\ call.watch_remnants[1].code = call.watch_remnants[2].code
    /\ In(call.watch_remnants[1].code, call.offer_ids)

\* C4 as claimed: create_stocks never returns normally for an inventory that
\* holds a record with a malformed quantity descriptor, whatever its code.
C4_AnyMalformedRecordFails ==
    (IsStocksCall /\ ret.status = "returned") =>
        \A i \in 1..Len(call.watch_remnants) :
            ~Malformed(call.watch_remnants[i].quantity)

\* C4 amended: create_stocks fails with ValueError exactly when some record
\* with a malformed quantity descriptor is reached while its code is still in
\* the offer-id list; malformed records with an unknown or already consumed
\* code are skipped.
C4_LiveMalformedRecordFails ==
    (IsStocksCall /\ ret.status # "pending") =>
        ((\E i \in 1..Len(call.watch_remnants) :
             /\ Live(call.watch_remnants, call.offer_ids, i)
             /\ Malformed(call.watch_remnants[i].quantity))
         <=> (ret.status = "raised" /\ ret.value = "ValueError"))

C4_Witness ==
    /\ IsStocksCall /\ ret.status = "raised"
    /\ Len(call.watch_remnants) = 2
    /\ ~Malformed(call.watch_remnants[1].quantity)
    /\ Live(call.watch_remnants, call.offer_ids, 1)
    /\ Malformed(call.watch_remnants[2].quantity)
    /\ Live(call.watch_remnants, call.offer_ids, 2)

\* C5 as claimed: create_prices (either variant) completes for an inventory
\* with a known record whose price has no digit before its first '.'.
C5_DigitlessPriceNeverFails ==
    (/\ IsPricesCall /\ ret.status # "pending"
     /\ \E i \in 1..Len(call.watch_remnants) :
           /\ In(call.watch_remnants[i].code, call.offer_ids)
           /\ DigitsBeforeDot(call.watch_remnants[i].price) = <<>>)
    => ret.status = "returned"

\* C6 as claimed: every stock update create_stocks returns has a count >= 0.
C6_StockCountsNonNegative ==
    (IsStocksCall /\ ret.status = "returned") =>
        \A i \in 1..Len(ret.value) : StockCount(ret.value[i]) >= 0

\* C7: the chunks of divide(S, n), n >= 1, concatenate to S; every chunk but
\* the last has length n, the last has length in 1..n, and an empty S gives
\* no chunk at all.
C7_DivideChunks ==
    (call.fn = "divide" /\ ret.status = "returned") =>
        /\ Flatten(ret.value) = call.lst
        /\ \A j \in 1..(Len(ret.value) - 1) : Len(ret.value[j]) = call.n
        /\ \A j \in 1..Len(ret.value) :
               Len(ret.value[j]) >= 1 /\ Len(ret.value[j]) <= call.n
        /\ (call.lst = <<>> => ret.value = <<>>)

C7_Witness ==
    /\ call.fn = "divide" /\ ret.status = "returned"
    /\ call.n = 2 /\ Len(call.lst) = 3
    /\ Len(ret.value) = 2 /\ Len(ret.value[2]) = 1

\* C8: inside create_stocks (either variant) a record with a known code gets
\* count 100 for ">10", 0 for "1", and the integer value of any other integer
\* descriptor; a known record with descriptor "abc" makes the call raise.
C8_QuantityMapping ==
    (IsStocksCall /\ ret.status # "pending") =>
        LET inv == call.watch_remnants
            ids == call.offer_ids
        IN  /\ ret.status = "returned" =>
                \A i \in 1..Len(inv) :
                    Live(inv, ids, i) =>
                        LET u == ret.value[Position(inv, ids, i)]
                        IN  /\ StockId(u) = inv[i].code
                            /\ inv[i].quantity \in DOMAIN ExpectedCount
                            /\ StockCount(u) = ExpectedCount[inv[i].quantity]
            /\ (\E i \in 1..Len(inv) :
                    Live(inv, ids, i) /\ inv[i].quantity = <<"a", "b", "c">>)
               => ret.status = "raised"

C8_Witness ==
    /\ IsStocksCall /\ ret.status = "returned"
    /\ Len(call.watch_remnants) = 2
    /\ call.watch_remnants[1].quantity = <<"1">>
    /\ call.watch_remnants[2].quantity = <<"1", "0">>
    /\ Live(call.watch_remnants, call.offer_ids, 1)
    /\ Live(call.watch_remnants, call.offer_ids, 2)

\* C9: price_conversion(p) is the digits of p that stand before its first
\* '.', in order, every other character removed; the fraction is cut off, not
\* rounded, and a price without such digits gives the empty string.
C9_PriceConversion ==
    (call.fn = "price_conversion" /\ ret.status = "returned") =>
        /\ ret.value = DigitsBeforeDot(call.price)
        /\ (call.price = LongPrice => ret.value = <<"1", "6", "5", "9", "0">>)
        /\ (call.price = <<"1", ".", "9">> => ret.value = <<"1">>)
        /\ (call.price = <<"a", "b", "c">> => ret.value = <<>>)

C9_Witness ==
    /\ call.fn = "price_conversion" /\ ret.status = "returned"
    /\ call.price = <<"1", ".", "9">>
    /\ ret.value = <<"1">>

\* record i is the first record of the inventory with its code, and the code
\* is a known offer id
FirstKnown(inv, ids, i) ==
    /\ In(inv[i].code, ids)
    /\ \A j \in 1..(i - 1) : inv[j].code # inv[i].code

\* the code of record i occurs in several records of the inventory
Repeated(inv, i) == \E j \in 1..Len(inv) : j # i /\ inv[j].code = inv[i].code

\* C14 as claimed: when create_stocks (either variant) returns for an
\* inventory in which several records carry the same known code, every such
\* code has exactly one update in the returned list, with the count mapped
\* from the first of those records; the updates made from inventory records
\* stand in inventory order, one per first record of a known code, and
\* everything after them is zero-filled.
C14_FirstOccurrenceWins ==
    (/\ IsStocksCall /\ ret.status = "returned"
     /\ \E i \in 1..Len(call.watch_remnants) :
            /\ FirstKnown(call.watch_remnants, call.offer_ids, i)
            /\ Repeated(call.watch_remnants, i)) =>
        LET inv == call.watch_remnants
            ids == call.offer_ids
            out == ret.value
            firsts == {i \in 1..Len(inv) : FirstKnown(inv, ids, i)}
            Rank(i) == Cardinality({j \in firsts : j <= i})
            outIds == [m \in 1..Len(out) |-> StockId(out[m])]
        IN  /\ Len(out) >= Cardinality(firsts)
            /\ \A i \in firsts :
                   /\ StockId(out[Rank(i)]) = inv[i].code
                   /\ StockCount(out[Rank(i)]) = ExpectedCount[inv[i].quantity]
                   /\ Repeated(inv, i) => Occurrences(outIds, inv[i].code) = 1
            /\ \A m \in (Cardinality(firsts) + 1)..Len(out) :
                   /\ StockCount(out[m]) = 0
                   /\ \A i \in 1..Len(inv) : inv[i].code # StockId(out[m])

\* the reconciliation call has been made twice
CalledTwice == ret.status # "pending" /\ "again" \in DOMAIN ret

\* a market.py stock update with its updatedAt blanked
Unstamped(u) == [u EXCEPT !.items[1].updatedAt = ""]

PassList(r) == IF r.fn = "update_stocks" THEN stocks ELSE prices

PassSize(r) ==
    IF r.fn = "update_stocks"
    THEN (IF call.fn \in SellerEntries THEN SellerStockBatch ELSE MarketStockBatch)
    ELSE IF call.fn = "seller.main" THEN SellerMainPriceBatch
    ELSE IF call.fn = "seller.upload_prices" THEN SellerUploadPriceBatch
    ELSE MarketPriceBatch

\* C2 as claimed: when seller.main has run to its end without an exception,
\* the price list holds a price update for every inventory record whose code
\* is in the offer-id list as get_offer_ids returned it.
C2_PricesForAllFetchedIds ==
    (call.fn = "seller.main" /\ pc = "done" /\ raised = "") =>
        \A i \in 1..Len(watch_remnants) :
            In(watch_remnants[i].code, fetched_ids[""]) =>
                \E j \in 1..Len(prices) :
                    prices[j].offer_id = watch_remnants[i].code

\* C3 as claimed: when market.main has returned and no call has failed, every
\* price update of each campaign's price list has been sent in some
\* update_price batch of that campaign.
C3_MarketMainSubmitsPrices ==
    (call.fn = "market.main" /\ pc = "done" /\ raised = "" /\ ret = ReturnNone) =>
        \A c \in {"FBS", "DBS"} :
            LET pl == market_create_prices(watch_remnants, fetched_ids[c]).prices
            IN  \A j \in 1..Len(pl) :
                    \E n \in 1..Len(requests) :
                        /\ requests[n].fn = "update_price"
                        /\ requests[n].campaign = c
                        /\ requests[n].ok
                        /\ In(pl[j], requests[n].batch)

\* C10: update_stocks / update_price calls are issued one at a time and never
\* taken back; each call carries the next chunk, in list order, of
\* divide(...) of its pass; and a call is issued only while every earlier call
\* of the same pass has succeeded, so nothing follows a failed batch.
C10_SubmissionOrder ==
    [][/\ Len(requests') \in {Len(requests), Len(requests) + 1}
       /\ SubSeq(requests', 1, Len(requests)) = requests
       /\ requests' # requests =>
            LET r == requests'[Len(requests')]
                earlier == SelectSeq(requests, LAMBDA q :
                               q.fn = r.fn /\ q.campaign = r.campaign)
                chunks == divide(PassList(r), PassSize(r))
            IN  /\ \A i \in 1..Len(earlier) : earlier[i].ok
                /\ Len(earlier) < Len(chunks)
                /\ r.batch = chunks[Len(earlier) + 1]
                /\ \A i \in 1..Len(earlier) : earlier[i].batch = chunks[i]]_vars

C10_Witness ==
    /\ pc = "done"
    /\ Len(batches) = 3
    /\ Len(requests) = 2
    /\ requests[1].ok /\ ~requests[2].ok
    /\ requests[1].fn = requests[2].fn

\* the offer id of an item of product_list, in the shape of the variant
ItemId(p) == IF call.fn \in SellerEntries THEN p.offer_id ELSE p.offer.shopSku

\* the ids of the items get_offer_ids has accumulated, in order
AccumulatedIds == [i \in 1..Len(product_list) |-> ItemId(product_list[i])]

\* C11 as claimed: in both variants, once a page has been fetched,
\* get_offer_ids returns if the page carried an empty next cursor and requests
\* another page if it carried a non-empty one; what it returns are the ids
\* accumulated over all fetched pages.
C11_StopsOnEmptyCursor ==
    [][pc = "page_fetched" =>
         /\ cursor = "" => /\ pc' = AfterGetOfferIds
                           /\ offer_ids' = AccumulatedIds
         /\ cursor # "" => pc' = "get_offer_ids"]_vars

\* C11 amended: once a page has been fetched, market.py get_offer_ids returns
\* exactly if the page carried an empty nextPageToken; seller.py get_offer_ids
\* returns exactly if the total the page reported equals the number of items
\* accumulated, whatever its last_id.  Either returns the ids accumulated
\* over all fetched pages, in order; otherwise another page is requested and
\* nothing accumulated is dropped.
C11_StopsOnVariantSignal ==
    [][pc = "page_fetched" =>
         LET last == IF call.fn \in MarketEntries
                     THEN cursor = ""
                     ELSE total = Len(product_list)
         IN  /\ last => /\ pc' = AfterGetOfferIds
                        /\ offer_ids' = AccumulatedIds
                        /\ fetched_ids'[campaign] = AccumulatedIds
             /\ ~last => /\ pc' = "get_offer_ids"
                         /\ UNCHANGED <<product_list, cursor, offer_ids>>]_vars

\* seller.py get_offer_ids has fetched pages whose last one carries an empty
\* last_id and a total other than the number of items accumulated
C11_Witness ==
    /\ call.fn \in SellerEntries /\ pc = "page_fetched"
    /\ cursor = "" /\ Len(product_list) = 2 /\ total = 3

\* C12 as claimed: the list get_offer_ids returned (either variant, any
\* campaign) holds each offer id at most once.
C12_FetchedIdsAreSet ==
    \A c \in DOMAIN fetched_ids : NoRepeats(fetched_ids[c])

\* the entry point has a stock pass and has completed it for the current
\* campaign, and no collaborator call of the run has failed so far
StockPassDone ==
    /\ call.fn \in Mains \cup {"seller.upload_stocks", "market.upload_stocks"}
    /\ pc \in {"create_prices", "update_price", "upload_prices", "done"}
    /\ raised = "" /\ ret.status # "raised"

\* the update_stocks calls issued for the current campaign, in order
StockCallsSent ==
    SelectSeq(requests, LAMBDA q :
        q.fn = "update_stocks" /\ q.campaign = campaign)

\* C13: when a run has completed its stock pass and no collaborator call has
\* failed, the batches handed to update_stocks, concatenated in submission
\* order, are the stock list create_stocks returned; no batch is empty and no
\* batch is longer than the variant's batch size.
C13_StockBatchesCoverStockList ==
    StockPassDone =>
        LET sent == StockCallsSent
            size == IF call.fn \in SellerEntries
                    THEN SellerStockBatch ELSE MarketStockBatch
        IN  /\ Flatten([i \in 1..Len(sent) |-> sent[i].batch]) = stocks
            /\ \A i \in 1..Len(sent) :
                   /\ sent[i].ok
                   /\ sent[i].batch # <<>>
                   /\ Len(sent[i].batch) <= size

\* a market.py run has submitted a stock list of three updates in a full
\* batch and a shorter last one
C13_Witness ==
    /\ StockPassDone /\ pc = "done" /\ call.fn \in MarketEntries
    /\ Len(stocks) = 3
    /\ Len(StockCallsSent) = 2
    /\ Len(StockCallsSent[2].batch) = 1

\* create_stocks has failed with a parse error in a main, which caught it
ParseErrorCaught == call.fn \in Mains /\ raised = "ValueError"

\* the caller's offer-id list is the list get_offer_ids returned for the
\* campaign, less one occurrence of the code of every record matched before
\* the first record that is reached with a malformed quantity
MatchedBeforeFailureRemoved ==
    LET inv == watch_remnants
        ids == fetched_ids[campaign]
        failing == {i \in 1..Len(inv) :
                       Live(inv, ids, i) /\ Malformed(inv[i].quantity)}
    IN  /\ failing # {}
        /\ LET f == CHOOSE i \in failing : \A j \in failing : i <= j
               matched(c) == {j \in 1..(f - 1) :
                                 Live(inv, ids, j) /\ inv[j].code = c}
           IN  \A c \in Codes :
                   Occurrences(offer_ids, c) =
                       Occurrences(ids, c) - Cardinality(matched(c))

\* C16 as claimed: when create_stocks has failed with a parse error in
\* seller.main or market.main, main has caught the error and returned, no
\* stock batch and no price batch has been submitted in the run, and the ids
\* matched before the failing record are gone from the caller's list.
C16_NothingSubmittedOnParseError ==
    ParseErrorCaught =>
        /\ pc = "done" /\ ret = ReturnNone
        /\ requests = <<>>
        /\ MatchedBeforeFailureRemoved

\* C16 amended: when create_stocks has failed with a parse error in
\* seller.main or market.main, main has caught the error and returned, no
\* stock batch and no price batch has been submitted for the campaign whose
\* reconciliation failed (for seller.main: none at all), and the ids matched
\* before the failing record are gone from the caller's list.  What
\* market.main has submitted before a failure of the DBS reconciliation are
\* the stock batches of the FBS campaign, all of them accepted.
C16_NothingSubmittedForFailedCampaign ==
    ParseErrorCaught =>
        /\ pc = "done" /\ ret = ReturnNone
        /\ \A n \in 1..Len(requests) :
               /\ requests[n].campaign # campaign
               /\ requests[n].campaign = "FBS"
               /\ requests[n].fn = "update_stocks"
               /\ requests[n].ok
        /\ call.fn = "seller.main" => requests = <<>>
        /\ requests # <<>> =>
               Flatten([n \in 1..Len(requests) |-> requests[n].batch]) =
                   market_create_stocks(watch_remnants, fetched_ids["FBS"],
                       "wh_fbs", requests[1].batch[1].items[1].updatedAt).stocks
        /\ MatchedBeforeFailureRemoved

\* market.main has submitted the FBS stocks, and create_stocks of the DBS
\* campaign has failed after matching a record
C16_Witness ==
    /\ ParseErrorCaught /\ call.fn = "market.main" /\ campaign = "DBS"
    /\ requests # <<>>
    /\ Len(offer_ids) < Len(fetched_ids["DBS"])

====
